---- MODULE Spec2Model ----
(***************************************************************************)
(* A model of src/snake.c: the terminal Snake game.  The state is the      *)
(* process-wide Config and the Game of main(), the locals of main()'s      *)
(* loop (elapsed_us, last_move, last_render), the terminal mode, and the   *)
(* position of main() in its code (pc).  Each action is one statement or   *)
(* call of main(); init_game, handle_input, move_snake and generate_food   *)
(* are operators translated from their C bodies.                           *)
(*                                                                         *)
(* rand(), the keyboard and the clock are inputs, drawn with \E from       *)
(* bounded sets.  body[i] of a slot the program never wrote (malloc'ed     *)
(* memory, or memory past the allocation) reads as an arbitrary Point.     *)
(* The variables h_in, h_mv, h_rd, move_dir and moves are history: they   *)
(* record the calls of the current loop iteration and of the run so far,   *)
(* and change nothing the program does.                                    *)
(***************************************************************************)
EXTENDS Integers, Sequences, FiniteSets, TLC

\* ------------------------------------------------------------------ bounds
MaxWidth == 4
MaxHeight == 2
\* the clock readings of main()'s loop stay within MaxTicks sleeps
MaxTicks == 3

\* ------------------------------------------------------- program constants
MODE_REGULAR == 0
MODE_GREEDY == 1
UP == 1
DOWN == 2
LEFT == 3
RIGHT == 4
MICROSECONDS_PER_SECOND == 1000000
LOOP_SLEEP_US == 1000
POINTS_PER_FOOD == 10
FOOD_PLACEMENT_MAX_ATTEMPTS_MULTIPLIER == 2

\* ------------------------------------------------------------------ inputs
\* -m FPS and -r FPS values given on the command line (parse_arguments)
MoveFpsArgs == {500, 1000}
RenderFpsArgs == {500}
\* values of rand(), enough to reach every cell of the largest board
RandVals == 0 .. (IF MaxWidth > MaxHeight THEN MaxWidth ELSE MaxHeight) - 1
\* values read from a body slot the program never wrote: zeroed memory (0)
\* or something else (-1), in both coordinates
UninitVals == {-1, 0}
\* bytes read from stdin
ESC == "ESC"
Bytes == {ESC, "[", "A", "B", "C", "D", "w", "W", "s", "S", "a", "d",
          "q", "Q", " ", "x"}

VARIABLES
    config,       \* Config config (global)
    game,         \* Game game (local of main)
    elapsed_us,   \* main: the clock reading of the current iteration
    last_move,    \* main: last_move
    last_render,  \* main: last_render
    now,          \* the monotonic clock, in microseconds since start_time
    raw_mode,     \* whether stdin is in the raw mode of enable_raw_mode
    pc,           \* main: the statement to run next
    h_in,         \* history: the handle_input call of this iteration
    h_mv,         \* history: the move tick of this iteration
    h_rd,         \* history: the render tick of this iteration
    move_dir,     \* history: the direction the latest move_snake call used
    moves         \* history: the move_snake calls so far that moved the snake

vars == <<config, game, elapsed_us, last_move, last_render, now, raw_mode, pc,
          h_in, h_mv, h_rd, move_dir,
          moves>>

Point(px, py) == [x |-> px, y |-> py]

\* ------------------------------------------------------------------ Config
\* calculate_intervals: integer division of one second by the FPS values
calculate_intervals(cfg) ==
    [cfg EXCEPT !.render_interval = MICROSECONDS_PER_SECOND \div cfg.render_fps,
                !.move_interval = MICROSECONDS_PER_SECOND \div cfg.move_fps]

\* get_terminal_size when -w and -h were both given (override_* > 0): both
\* branches of the ioctl test then set the board to the overrides
get_terminal_size(cfg, override_width, override_height) ==
    [cfg EXCEPT !.board_width = override_width,
                !.board_height = override_height]

\* ------------------------------------------------------------------- board
\* a cell drawn as (rand() % board_width, rand() % board_height)
RandCell(cfg, r1, r2) == Point(r1 % cfg.board_width, r2 % cfg.board_height)

RandCells(cfg) == {RandCell(cfg, r1, r2) : r1 \in RandVals, r2 \in RandVals}

UninitPoints == {Point(u, u) : u \in UninitVals}

\* --------------------------------------------------------------- init_game
\* init_game after get_terminal_size; r1 and r2 are the two rand() values
init_game(cfg, r1, r2) ==
    LET max_possible_length == cfg.board_width * cfg.board_height
        hx == cfg.board_width \div 2
        hy == cfg.board_height \div 2
    IN  [food |-> RandCell(cfg, r1, r2),
         snake |-> [body |-> [i \in 0 .. 2 |-> Point(hx - i, hy)],
                    length |-> 3,
                    max_length |-> max_possible_length,
                    direction |-> RIGHT],
         score |-> 0,
         game_over |-> FALSE,
         paused |-> FALSE]

\* ----------------------------------------------------------- generate_food
\* the occupancy loop without the head, i = 1 .. length-1
Occupied_no_head(snake, p) ==
    \E i \in 1 .. snake.length - 1 : snake.body[i] = p

\* the occupancy loop of generate_food, i = 0 .. length-1
Occupied(snake, p) ==
    \E i \in 0 .. snake.length - 1 : snake.body[i] = p

\* the while loop of generate_food: samples[k] is the cell the k-th pass
\* draws with rand(); the result is the game and the value of attempts
RECURSIVE food_loop(_, _, _, _, _)
food_loop(g, cfg, samples, valid, attempts) ==
    LET total_cells == cfg.board_width * cfg.board_height
    IN  IF ~valid /\ attempts < total_cells * FOOD_PLACEMENT_MAX_ATTEMPTS_MULTIPLIER
        THEN LET g1 == [g EXCEPT !.food = samples[attempts + 1]]
             IN  food_loop(g1, cfg, samples, ~Occupied(g1.snake, g1.food),
                           attempts + 1)
        ELSE [game |-> IF ~valid THEN [g EXCEPT !.game_over = TRUE] ELSE g,
              attempts |-> attempts]

generate_food(g, cfg, samples) ==
    LET total_cells == cfg.board_width * cfg.board_height
    IN  IF g.snake.length >= total_cells
        THEN [game |-> [g EXCEPT !.game_over = TRUE], attempts |-> 0]
        ELSE food_loop(g, cfg, samples, FALSE, 0)

\* the rand() streams tried: the first draw is the cell q, every later draw
\* is the cell p
SampleRuns(cfg) ==
    LET max_attempts == cfg.board_width * cfg.board_height
                            * FOOD_PLACEMENT_MAX_ATTEMPTS_MULTIPLIER
    IN  {[k \in 1 .. max_attempts |-> IF k = 1 THEN q ELSE p] :
            q \in RandCells(cfg), p \in RandCells(cfg)}

\* -------------------------------------------------------------- move_snake
\* the switch on snake.direction
step_head(head, direction) ==
    CASE direction = UP -> Point(head.x, head.y - 1)
      [] direction = DOWN -> Point(head.x, head.y + 1)
      [] direction = LEFT -> Point(head.x - 1, head.y)
      [] direction = RIGHT -> Point(head.x + 1, head.y)
      [] OTHER -> head

\* wrap_head with the far edge one cell off: x < 0 wraps to board_width
wrap_head_off_by_one(cfg, p) ==
    LET wx == IF p.x < 0 THEN cfg.board_width
              ELSE IF p.x >= cfg.board_width THEN 0 ELSE p.x
        wy == IF p.y < 0 THEN cfg.board_height
              ELSE IF p.y >= cfg.board_height THEN 0 ELSE p.y
    IN  Point(wx, wy)

\* the wraparound_mode branch
wrap_head(cfg, p) ==
    LET wx == IF p.x < 0 THEN cfg.board_width - 1
              ELSE IF p.x >= cfg.board_width THEN 0 ELSE p.x
        wy == IF p.y < 0 THEN cfg.board_height - 1
              ELSE IF p.y >= cfg.board_height THEN 0 ELSE p.y
    IN  Point(wx, wy)

\* hits_wall with > for >=: the cell just past the right and bottom edge passes
hits_wall_off_by_one(cfg, new_head) ==
    \/ new_head.x < 0 \/ new_head.x > cfg.board_width
    \/ new_head.y < 0 \/ new_head.y > cfg.board_height

\* the wall test of the branch without wraparound
hits_wall(cfg, new_head) ==
    \/ new_head.x < 0 \/ new_head.x >= cfg.board_width
    \/ new_head.y < 0 \/ new_head.y >= cfg.board_height

\* hits_self with the tail left out, i = 1 .. length-2
hits_self_no_tail(snake, new_head) ==
    \E i \in 1 .. snake.length - 2 : snake.body[i] = new_head

\* the self-collision loop, i = 1 .. length-1
hits_self(snake, new_head) ==
    \E i \in 1 .. snake.length - 1 : snake.body[i] = new_head

\* greedy_shift without length++
greedy_shift_no_growth(snake, new_head) ==
    [snake EXCEPT
        !.body = [i \in 0 .. snake.length - 1 |->
                     IF i = 0 THEN new_head ELSE snake.body[i - 1]]]

\* MODE_GREEDY: body[i+1] = body[i] for i = length-1 .. 0, body[0] = new_head,
\* length++
greedy_shift(snake, new_head) ==
    [snake EXCEPT
        !.body = [i \in 0 .. snake.length |->
                     IF i = 0 THEN new_head ELSE snake.body[i - 1]],
        !.length = snake.length + 1]

\* regular_shift with the loop running upwards, i = 1 .. length-1: every
\* segment behind the head becomes the old head
regular_shift_upwards(snake, new_head) ==
    [snake EXCEPT
        !.body = [i \in 0 .. snake.length - 1 |->
                     IF i = 0 THEN new_head ELSE snake.body[0]]]

\* MODE_REGULAR: body[i] = body[i-1] for i = length-1 .. 1, body[0] = new_head
regular_shift(snake, new_head) ==
    [snake EXCEPT
        !.body = [i \in 0 .. snake.length - 1 |->
                     IF i = 0 THEN new_head ELSE snake.body[i - 1]]]

\* regular_grow without length++
regular_grow_no_growth(snake, uninit) == snake

\* MODE_REGULAR, food eaten: length++ makes the slot body[length] part of the
\* snake; no code ever wrote it, so it holds the arbitrary Point uninit
regular_grow(snake, uninit) ==
    [snake EXCEPT
        !.body = [i \in 0 .. snake.length |->
                     IF i < snake.length THEN snake.body[i] ELSE uninit],
        !.length = snake.length + 1]

NoFood == [called |-> FALSE, attempts |-> 0]

\* move_snake; each result is the game, the return taken (ret) and what the
\* call of generate_food did, if there was one (gf).  The results differ in
\* what the call reads from outside: the Point of a never-written body slot
\* and the rand() stream of generate_food
move_snake(g, cfg) ==
    LET stepped == step_head(g.snake.body[0], g.snake.direction)
        new_head == IF cfg.wraparound_mode THEN wrap_head(cfg, stepped)
                    ELSE stepped
        ate_food == new_head = g.food
        eaten(g1) ==
            {LET r == generate_food([g1 EXCEPT !.score = g1.score + POINTS_PER_FOOD],
                                    cfg, samples)
             IN  [game |-> r.game, ret |-> "moved",
                  gf |-> [called |-> TRUE, attempts |-> r.attempts]] :
                samples \in SampleRuns(cfg)}
    IN  IF ~cfg.wraparound_mode /\ hits_wall(cfg, new_head)
        THEN {[game |-> [g EXCEPT !.game_over = TRUE], ret |-> "wall",
               gf |-> NoFood]}
        ELSE IF hits_self(g.snake, new_head)
        THEN {[game |-> [g EXCEPT !.game_over = TRUE], ret |-> "self",
               gf |-> NoFood]}
        ELSE IF cfg.game_mode = MODE_GREEDY
        THEN IF g.snake.length >= g.snake.max_length
             THEN {[game |-> [g EXCEPT !.game_over = TRUE], ret |-> "full",
                    gf |-> NoFood]}
             ELSE LET g1 == [g EXCEPT !.snake = greedy_shift(g.snake, new_head)]
                  IN  IF ate_food THEN eaten(g1)
                      ELSE {[game |-> g1, ret |-> "moved", gf |-> NoFood]}
        ELSE LET g1 == [g EXCEPT !.snake = regular_shift(g.snake, new_head)]
             IN  IF ate_food
                 THEN UNION {eaten([g1 EXCEPT
                                      !.snake = regular_grow(g1.snake, uninit)]) :
                                uninit \in UninitPoints}
                 ELSE {[game |-> g1, ret |-> "moved", gf |-> NoFood]}

\* ------------------------------------------------------------ handle_input
\* set_direction without the test of the reverse direction
set_direction_unfiltered(g, blocked, requested) ==
    [g EXCEPT !.snake.direction = requested]

\* if (snake.direction != blocked) snake.direction = requested;
set_direction(g, blocked, requested) ==
    IF g.snake.direction # blocked
    THEN [g EXCEPT !.snake.direction = requested]
    ELSE g

\* switch (seq2) of an ESC [ sequence
arrow_key(g, seq2) ==
    CASE seq2 = "A" -> set_direction(g, DOWN, UP)
      [] seq2 = "B" -> set_direction(g, UP, DOWN)
      [] seq2 = "C" -> set_direction(g, LEFT, RIGHT)
      [] seq2 = "D" -> set_direction(g, RIGHT, LEFT)
      [] OTHER -> g

plain_key_no_quit_paused(g, c) ==
    IF c \in {"q", "Q"} /\ g.paused THEN g
    ELSE CASE c \in {"w", "W"} -> set_direction(g, DOWN, UP)
           [] c \in {"s", "S"} -> set_direction(g, UP, DOWN)
           [] c \in {"a", "A"} -> set_direction(g, RIGHT, LEFT)
           [] c \in {"d", "D"} -> set_direction(g, LEFT, RIGHT)
           [] c \in {"q", "Q"} -> [g EXCEPT !.game_over = TRUE]
           [] c = " " -> [g EXCEPT !.paused = ~g.paused]
           [] OTHER -> g

\* switch (c) of a byte other than ESC
plain_key(g, c) ==
    CASE c \in {"w", "W"} -> set_direction(g, DOWN, UP)
      [] c \in {"s", "S"} -> set_direction(g, UP, DOWN)
      [] c \in {"a", "A"} -> set_direction(g, RIGHT, LEFT)
      [] c \in {"d", "D"} -> set_direction(g, LEFT, RIGHT)
      [] c \in {"q", "Q"} -> [g EXCEPT !.game_over = TRUE]
      [] c = " " -> [g EXCEPT !.paused = ~g.paused]
      [] OTHER -> g

\* handle_input taking an ESC with nothing usable behind it as the quit key
handle_input_esc_quits(g, keys) ==
    IF Len(keys) = 0 THEN g
    ELSE IF keys[1] = ESC
    THEN IF Len(keys) >= 3 /\ keys[2] = "["
         THEN arrow_key(g, keys[3])
         ELSE [g EXCEPT !.game_over = TRUE]
    ELSE plain_key(g, keys[1])

\* handle_input; keys are the bytes stdin delivers to this call, in order:
\* kbhit() is true as long as a byte of keys is left, getchar() takes the next
handle_input(g, keys) ==
    IF Len(keys) = 0 THEN g
    ELSE IF keys[1] = ESC
    THEN IF Len(keys) >= 2
         THEN IF keys[2] = "[" /\ Len(keys) >= 3
              THEN arrow_key(g, keys[3])
              ELSE g
         ELSE g
    ELSE plain_key(g, keys[1])

\* the number of bytes of keys that handle_input takes from stdin
bytes_read(keys) ==
    IF Len(keys) = 0 THEN 0
    ELSE IF keys[1] # ESC THEN 1
    ELSE IF Len(keys) = 1 THEN 1
    ELSE IF keys[2] = "[" /\ Len(keys) >= 3 THEN 3
    ELSE 2

\* the byte sequences one call of handle_input can read
KeyInputs ==
    {keys \in {<<>>} \cup {<<a>> : a \in Bytes}
                     \cup {<<ESC, b>> : b \in Bytes}
                     \cup {<<ESC, "[", c>> : c \in Bytes} :
        bytes_read(keys) = Len(keys)}

\* the keys of a game: nothing, a direction, pause, quit
PlayKeys ==
    {<<>>, <<"w">>, <<"s">>, <<"a">>, <<"d">>, <<" ">>, <<"q">>}

\* -------------------------------------------------------------------- main
NoGame ==
    [food |-> Point(0, 0),
     snake |-> [body |-> [i \in 0 .. 0 |-> Point(0, 0)], length |-> 0,
                max_length |-> 0, direction |-> 0],
     score |-> 0, game_over |-> FALSE, paused |-> FALSE]

NoInput == [called |-> FALSE, keys |-> <<>>, pre |-> NoGame]

NoMove == [called |-> FALSE, pre |-> NoGame, ret |-> "none", gf |-> NoFood,
           earlier_dir |-> 0, last |-> 0]

NoRender == [called |-> FALSE, last |-> 0]

\* the state after parse_arguments returned 0: the Config holds the command
\* line's values, nothing else is initialised
Init ==
    /\ \E mf \in MoveFpsArgs, rf \in RenderFpsArgs,
          wrap \in BOOLEAN, mode \in {MODE_REGULAR, MODE_GREEDY},
          w \in 1 .. MaxWidth, h \in 1 .. MaxHeight :
            config = [board_width |-> w, board_height |-> h,
                      render_fps |-> rf, move_fps |-> mf,
                      render_interval |-> 33333, move_interval |-> 166667,
                      wraparound_mode |-> wrap, game_mode |-> mode]
    /\ game = NoGame
    /\ elapsed_us = 0
    /\ last_move = 0
    /\ last_render = 0
    /\ now = 0
    /\ raw_mode = FALSE
    /\ pc = "start"
    /\ h_in = NoInput
    /\ h_mv = NoMove
    /\ h_rd = NoRender
    /\ move_dir = 0
    /\ moves = 0

\* main: calculate_intervals, enable_raw_mode, hide_cursor, clear_screen,
\* init_game (the board is the one -w and -h gave).  On a board of fewer than
\* 3 cells init_game writes body[1] and body[2] past the malloc'ed block:
\* either the allocator's block has the room and the values are stored, or
\* the process dies
InitGame ==
    /\ pc = "start"
    /\ \E r1 \in RandVals, r2 \in RandVals :
        LET cfg == get_terminal_size(calculate_intervals(config),
                                     config.board_width, config.board_height)
        IN  /\ config' = cfg
            /\ game' = init_game(cfg, r1, r2)
            /\ pc' \in (IF cfg.board_width * cfg.board_height < 3
                        THEN {"init_done", "crashed"}
                        ELSE {"init_done"})
    /\ raw_mode' = TRUE
    /\ UNCHANGED <<elapsed_us, last_move, last_render, now, h_in, h_mv, h_rd,
                   move_dir, moves>>

\* main: clock_gettime(&start_time); last_render = 0; last_move = 0
StartClock ==
    /\ pc = "init_done"
    /\ now' = 0
    /\ last_render' = 0
    /\ last_move' = 0
    /\ pc' = "while"
    /\ UNCHANGED <<config, game, elapsed_us, raw_mode, h_in, h_mv, h_rd,
                   move_dir, moves>>

\* main: while (!game.game_over) { clock_gettime; elapsed_us = ...
\* (the run is followed up to the clock reading MaxTicks * LOOP_SLEEP_US)
LoopTest ==
    /\ pc = "while"
    /\ IF game.game_over
       THEN /\ pc' = "cleanup"
            /\ UNCHANGED elapsed_us
       ELSE /\ now <= MaxTicks * LOOP_SLEEP_US
            /\ pc' = "input"
            /\ elapsed_us' = now
    /\ h_rd' = NoRender
    /\ UNCHANGED <<config, game, last_move, last_render, now, raw_mode, h_in,
                   h_mv, move_dir, moves>>

\* main: handle_input(&game), stdin delivering one of the byte sequences K
HandleInputFrom(K) ==
    /\ pc = "input"
    /\ \E keys \in K :
        /\ game' = handle_input(game, keys)
        /\ h_in' = [called |-> TRUE, keys |-> keys, pre |-> game]
    /\ pc' = "move"
    /\ UNCHANGED <<config, elapsed_us, last_move, last_render, now, raw_mode,
                   h_mv, h_rd, move_dir, moves>>

HandleInput == HandleInputFrom(PlayKeys)

HandleKeys == HandleInputFrom(KeyInputs)

move_due_ignores_pause == elapsed_us - last_move >= config.move_interval

move_due_strict == elapsed_us - last_move > config.move_interval /\ ~game.paused

\* the test of the move tick
move_due == elapsed_us - last_move >= config.move_interval /\ ~game.paused

\* main: if (move_due) { move_snake(&game, &config); last_move = elapsed_us; }
MoveTick ==
    /\ pc = "move"
    /\ IF move_due
       THEN /\ \E r \in move_snake(game, config) :
                /\ game' = r.game
                /\ h_mv' = [called |-> TRUE, pre |-> game, ret |-> r.ret,
                            gf |-> r.gf, earlier_dir |-> move_dir,
                            last |-> last_move]
                /\ moves' = IF r.ret = "moved" THEN moves + 1 ELSE moves
            /\ move_dir' = game.snake.direction
            /\ last_move' = elapsed_us
       ELSE /\ h_mv' = [NoMove EXCEPT !.pre = game, !.last = last_move]
            /\ UNCHANGED <<game, move_dir, last_move, moves>>
    /\ h_in' = NoInput
    /\ pc' = "render"
    /\ UNCHANGED <<config, elapsed_us, last_render, now, raw_mode, h_rd>>

\* the test of the render tick
render_due == elapsed_us - last_render >= config.render_interval

\* main: if (render_due) { draw_board(&game, &config); last_render = elapsed_us; }
\* usleep(LOOP_SLEEP_US): the clock advances by the sleep
RenderTick ==
    /\ pc = "render"
    /\ last_render' = IF render_due THEN elapsed_us ELSE last_render
    /\ h_rd' = [called |-> render_due, last |-> last_render]
    /\ now' = now + LOOP_SLEEP_US
    /\ h_mv' = NoMove
    /\ pc' = "while"
    /\ UNCHANGED <<config, game, elapsed_us, last_move, raw_mode, h_in,
                   move_dir, moves>>

\* main after the loop: cleanup_game, clear_screen, show_cursor, the final
\* score, disable_raw_mode, getchar, return 0
Finish ==
    /\ pc = "cleanup"
    /\ raw_mode' = FALSE
    /\ pc' = "done"
    /\ UNCHANGED <<config, game, elapsed_us, last_move, last_render, now, h_in,
                   h_mv, h_rd, move_dir, moves>>

Next ==
    \/ InitGame
    \/ StartClock
    \/ LoopTest
    \/ HandleInput
    \/ MoveTick
    \/ RenderTick
    \/ Finish

Spec == Init /\ [][Next]_vars

\* The same program with every byte sequence of KeyInputs on stdin, on the
\* boards of height 1.
InitKeys == Init /\ config.board_height = 1

NextKeys ==
    \/ InitGame
    \/ StartClock
    \/ LoopTest
    \/ HandleKeys
    \/ MoveTick
    \/ RenderTick
    \/ Finish

SpecKeys == InitKeys /\ [][NextKeys]_vars

\* The same program with a signal arriving during the main loop.
\* enable_raw_mode clears only ECHO and ICANON, so ISIG stays set and Ctrl-C
\* raises SIGINT; main installs no signal handler, so SIGINT, SIGTERM or SIGHUP
\* end the process at once: the atexit handler does not run and main's
\* disable_raw_mode is never reached.
Signal ==
    /\ pc \in {"while", "input", "move", "render"}
    /\ pc' = "killed"
    /\ UNCHANGED <<config, game, elapsed_us, last_move, last_render, now,
                   raw_mode, h_in, h_mv, h_rd, move_dir, moves>>

NextSignal ==
    \/ InitGame
    \/ StartClock
    \/ LoopTest
    \/ HandleInput
    \/ MoveTick
    \/ RenderTick
    \/ Finish
    \/ Signal

SpecSignal == Init /\ [][NextSignal]_vars

\* ========================================================== the claims
\* What the claims say, written from their wording: the cell one step from p
\* in direction d, the board, the wrap "modulo the board size", the reverse of
\* a direction, and the move_snake call of the current loop iteration.
C_Advance(p, d) ==
    IF d = UP THEN Point(p.x, p.y - 1)
    ELSE IF d = DOWN THEN Point(p.x, p.y + 1)
    ELSE IF d = LEFT THEN Point(p.x - 1, p.y)
    ELSE Point(p.x + 1, p.y)

C_OnBoard(p) ==
    /\ p.x \in 0 .. config.board_width - 1
    /\ p.y \in 0 .. config.board_height - 1

C_Modulo(p) == Point(p.x % config.board_width, p.y % config.board_height)

C_Reverse(d) ==
    IF d = UP THEN DOWN
    ELSE IF d = DOWN THEN UP
    ELSE IF d = LEFT THEN RIGHT
    ELSE IF d = RIGHT THEN LEFT
    ELSE 0

\* move_snake was called in this iteration and has returned
C_Moved == pc = "render" /\ h_mv.called

\* the game when that call began, its head one step on, and the new head
C_Pre == h_mv.pre

C_Stepped == C_Advance(C_Pre.snake.body[0], C_Pre.snake.direction)

C_NewHead == IF config.wraparound_mode THEN C_Modulo(C_Stepped) ELSE C_Stepped

\* the new head is on a segment body[1 .. length-1] of the game before the call
C_HitsBody ==
    \E i \in 1 .. C_Pre.snake.length - 1 : C_Pre.snake.body[i] = C_NewHead

C_FoodOnSnake(g) ==
    \E i \in 0 .. g.snake.length - 1 : g.snake.body[i] = g.food

\* C1: for every board width >= 1 and height >= 1, init_game leaves length 3,
\* the head at (width/2, height/2), the segments on one row at x, x-1, x-2,
\* and all three segments inside the board.
C1_InitGame ==
    pc = "init_done" =>
        LET hx == config.board_width \div 2
            hy == config.board_height \div 2
        IN  /\ game.snake.length = 3
            /\ game.snake.body[0] = Point(hx, hy)
            /\ game.snake.body[1] = Point(hx - 1, hy)
            /\ game.snake.body[2] = Point(hx - 2, hy)
            /\ \A i \in 0 .. 2 : C_OnBoard(game.snake.body[i])

\* C2: in Regular mode a move whose new head is in bounds, on no body segment
\* and not on the food keeps length and score and shifts the body by one:
\* body[0] is the old head one cell on, body[i] the old body[i-1].
C2_RegularShift ==
    (/\ C_Moved
     /\ config.game_mode = MODE_REGULAR
     /\ C_OnBoard(C_Stepped)
     /\ ~C_HitsBody
     /\ C_Stepped # C_Pre.food)
    => /\ game.snake.length = C_Pre.snake.length
       /\ game.score = C_Pre.score
       /\ game.snake.body[0] = C_Stepped
       /\ \A i \in 1 .. C_Pre.snake.length - 1 :
            game.snake.body[i] = C_Pre.snake.body[i - 1]

C2_Witness ==
    /\ C_Moved
    /\ config.game_mode = MODE_REGULAR
    /\ C_OnBoard(C_Stepped)
    /\ ~C_HitsBody
    /\ C_Stepped # C_Pre.food
    /\ C_Pre.snake.body = [i \in 0 .. 2 |-> Point(2 - i, 1)]
    /\ game.snake.body = [i \in 0 .. 2 |-> Point(3 - i, 1)]
    /\ game.score = 0

\* C3: in Regular mode a move whose new head lands on the food adds exactly 1
\* to length and exactly 10 to score, and unless the game is over afterwards
\* the food is on none of the segments body[0 .. length-1] after the move.
C3_RegularEat ==
    (/\ C_Moved
     /\ config.game_mode = MODE_REGULAR
     /\ C_OnBoard(C_NewHead)
     /\ ~C_HitsBody
     /\ C_NewHead = C_Pre.food)
    => /\ game.snake.length = C_Pre.snake.length + 1
       /\ game.score = C_Pre.score + 10
       /\ ~game.game_over => ~C_FoodOnSnake(game)

C3_Witness ==
    /\ C_Moved
    /\ config.game_mode = MODE_REGULAR
    /\ C_OnBoard(C_NewHead)
    /\ ~C_HitsBody
    /\ C_NewHead = C_Pre.food
    /\ ~game.game_over
    /\ game.snake.length = 4
    /\ game.score = 10
    /\ game.food # C_Pre.food

\* C4: in Greedy mode a move after which the game is not over adds exactly 1
\* to length, with the old body kept in full behind the new head; the score
\* grows by exactly 10 if the new head is on the food and not at all if not.
C4_GreedyGrow ==
    (/\ C_Moved
     /\ config.game_mode = MODE_GREEDY
     /\ ~game.game_over)
    => /\ game.snake.length = C_Pre.snake.length + 1
       /\ game.snake.body[0] = C_NewHead
       /\ \A i \in 1 .. C_Pre.snake.length :
            game.snake.body[i] = C_Pre.snake.body[i - 1]
       /\ game.score = C_Pre.score + (IF C_NewHead = C_Pre.food THEN 10 ELSE 0)

C4_Witness ==
    /\ C_Moved
    /\ config.game_mode = MODE_GREEDY
    /\ ~game.game_over
    /\ C_NewHead = C_Pre.food
    /\ C_Pre.snake.length = 4
    /\ game.snake.length = 5
    /\ game.score = 10

\* C5: in either mode, a move whose new head (after wraparound) is on a
\* segment body[1 .. length-1] of the snake before the move, the tail
\* body[length-1] included, sets game_over and changes nothing else.
C5_SelfCollision ==
    (C_Moved /\ C_HitsBody)
    => /\ game.game_over
       /\ game = [C_Pre EXCEPT !.game_over = TRUE]

C5_Witness ==
    /\ C_Moved
    /\ ~C_Pre.game_over
    /\ C_Pre.snake.length >= 4
    /\ C_NewHead = C_Pre.snake.body[C_Pre.snake.length - 1]
    /\ C_OnBoard(C_NewHead)
    /\ game.game_over

\* C6: without wraparound, a move whose new head would be outside the board
\* sets game_over and leaves body, length, score, food and direction as they
\* were.
C6_WallHit ==
    (C_Moved /\ ~config.wraparound_mode /\ ~C_OnBoard(C_Stepped))
    => /\ game.game_over
       /\ game = [C_Pre EXCEPT !.game_over = TRUE]

C6_Witness ==
    /\ C_Moved
    /\ ~config.wraparound_mode
    /\ ~C_OnBoard(C_Stepped)
    /\ ~C_Pre.game_over
    /\ game.game_over
    /\ C_Pre.snake.body[0].x = config.board_width - 1
    /\ config.board_width >= 4

\* the new head the claim C7 names: right from x = width-1 gives 0, left from
\* 0 gives width-1, down from y = height-1 gives 0, up from 0 gives height-1
C7_Expected ==
    LET h == C_Pre.snake.body[0]
        d == C_Pre.snake.direction
    IN  IF d = RIGHT /\ h.x = config.board_width - 1 THEN Point(0, h.y)
        ELSE IF d = LEFT /\ h.x = 0 THEN Point(config.board_width - 1, h.y)
        ELSE IF d = DOWN /\ h.y = config.board_height - 1 THEN Point(h.x, 0)
        ELSE IF d = UP /\ h.y = 0 THEN Point(h.x, config.board_height - 1)
        ELSE C_Stepped

\* the move has a cause other than a wall to end the game: the new head is on
\* the body or on the food, the Greedy snake is at capacity, or the game was
\* over before the call
C7_OtherEnd ==
    \/ \E i \in 1 .. C_Pre.snake.length - 1 : C_Pre.snake.body[i] = C7_Expected
    \/ C7_Expected = C_Pre.food
    \/ /\ config.game_mode = MODE_GREEDY
       /\ C_Pre.snake.length >= C_Pre.snake.max_length
    \/ C_Pre.game_over

\* C7: with wraparound a move never ends the game because of a wall: the new
\* head crosses each of the four edges to the opposite one, is always inside
\* the board, and becomes body[0] with the game still running unless the move
\* has another cause to end it.
C7_Wraparound ==
    (C_Moved /\ config.wraparound_mode)
    => /\ C_OnBoard(C7_Expected)
       /\ ~C7_OtherEnd => (~game.game_over /\ game.snake.body[0] = C7_Expected)

C7_Witness ==
    /\ C_Moved
    /\ config.wraparound_mode
    /\ ~C_OnBoard(C_Stepped)
    /\ ~C7_OtherEnd
    /\ C_Pre.snake.direction = LEFT
    /\ config.board_width >= 2
    /\ game.snake.body[0] = Point(config.board_width - 1, C_Pre.snake.body[0].y)

\* handle_input was called in this iteration and has returned
C_Handled == pc = "move" /\ h_in.called

\* the direction a key asks for: W/A/S/D in either case, or ESC [ A/B/C/D for
\* up/down/right/left; 0 for anything else
C8_Requested(keys) ==
    IF keys \in {<<"w">>, <<"W">>, <<ESC, "[", "A">>} THEN UP
    ELSE IF keys \in {<<"s">>, <<"S">>, <<ESC, "[", "B">>} THEN DOWN
    ELSE IF keys \in {<<"a">>, <<"A">>, <<ESC, "[", "D">>} THEN LEFT
    ELSE IF keys \in {<<"d">>, <<"D">>, <<ESC, "[", "C">>} THEN RIGHT
    ELSE 0

\* C8: a direction key (WASD or arrow) asking for the exact reverse of the
\* current direction is a no-op; every other direction key sets
\* snake.direction to the direction asked for.
C8_ReverseIgnored ==
    (C_Handled /\ C8_Requested(h_in.keys) # 0)
    => IF C8_Requested(h_in.keys) = C_Reverse(h_in.pre.snake.direction)
       THEN game = h_in.pre
       ELSE game = [h_in.pre EXCEPT !.snake.direction = C8_Requested(h_in.keys)]

C8_Witness ==
    /\ C_Handled
    /\ h_in.keys = <<ESC, "[", "B">>
    /\ h_in.pre.snake.direction = UP
    /\ game.snake.direction = UP

\* C9: whatever keys are handled between two consecutive move ticks, the later
\* tick's direction is never the exact reverse of the earlier tick's, and a
\* move never drives the head onto body[1], the segment right behind it (on a
\* board wide enough for the initial snake, walls on).
C9_NoReversal ==
    (C_Moved /\ config.board_width >= 4 /\ ~config.wraparound_mode)
    => /\ h_mv.earlier_dir # 0
            => C_Pre.snake.direction # C_Reverse(h_mv.earlier_dir)
       /\ C_Stepped # C_Pre.snake.body[1]

\* the call of generate_food of this iteration's move has returned
C_FoodCalled == C_Moved /\ h_mv.gf.called

C10_MaxAttempts == 2 * config.board_width * config.board_height

\* C10: when generate_food returns without game_over, the food is inside the
\* board and on no segment body[0 .. length-1]; it sets game_over exactly
\* when length >= width*height or all 2*width*height sampled cells were on
\* the snake.
C10_GenerateFood ==
    C_FoodCalled
    => /\ ~game.game_over => (C_OnBoard(game.food) /\ ~C_FoodOnSnake(game))
       /\ ~C_Pre.game_over =>
            (game.game_over <=>
                \/ game.snake.length >= config.board_width * config.board_height
                \/ /\ h_mv.gf.attempts = C10_MaxAttempts
                   /\ C_FoodOnSnake(game))

C10_Witness ==
    /\ C_FoodCalled
    /\ ~C_Pre.game_over
    /\ game.game_over
    /\ game.snake.length < config.board_width * config.board_height
    /\ h_mv.gf.attempts = C10_MaxAttempts
    /\ C_FoodOnSnake(game)

\* init_game has returned and the process has not ended
C_Playing == pc \in {"init_done", "while", "input", "move", "render"}

\* C11: in every reachable state from init_game on in which the game is not
\* over, the food is on none of the segments body[0 .. length-1] (on a board
\* wide enough for the initial snake).
C11_FoodOffSnake ==
    (C_Playing /\ ~game.game_over /\ config.board_width >= 4)
    => ~C_FoodOnSnake(game)

\* C12: for every board width >= 1 and height >= 1 and both modes, length never
\* exceeds max_length = width*height, the body indices 0, 1, 2 that init_game
\* writes are below max_length, and in Greedy mode a move attempted with
\* length = max_length sets game_over and writes nothing.
C12_Capacity ==
    /\ C_Playing =>
        /\ game.snake.max_length = config.board_width * config.board_height
        /\ game.snake.length <= game.snake.max_length
        /\ \A i \in 0 .. 2 : i < game.snake.max_length
    /\ (/\ C_Moved
        /\ config.game_mode = MODE_GREEDY
        /\ C_Pre.snake.length = C_Pre.snake.max_length)
       => /\ game.game_over
          /\ game = [C_Pre EXCEPT !.game_over = TRUE]

\* the move tick of this iteration has been decided, and the render tick
C_MoveDecided == pc = "render"

C_RenderDecided == pc = "while" /\ now > 0

\* C13: the move tick fires exactly when elapsed - last_move >= move_interval
\* and the game is not paused, the render tick exactly when
\* elapsed - last_render >= render_interval; a tick that fired leaves its
\* last-fired time at elapsed, one that did not leaves it alone, so a tick is
\* not due again at once and two consecutive move ticks are at least
\* move_interval apart.
C13_TickTiming ==
    /\ C_MoveDecided =>
        LET was_paused == IF h_mv.called THEN C_Pre.paused ELSE game.paused
        IN  /\ h_mv.called <=>
                (elapsed_us - h_mv.last >= config.move_interval /\ ~was_paused)
            /\ last_move = (IF h_mv.called THEN elapsed_us ELSE h_mv.last)
            /\ h_mv.called => last_move - h_mv.last >= config.move_interval
            /\ (h_mv.called /\ config.move_interval > 0) =>
                    ~(elapsed_us - last_move >= config.move_interval)
    /\ C_RenderDecided =>
        /\ h_rd.called <=> elapsed_us - h_rd.last >= config.render_interval
        /\ last_render = (IF h_rd.called THEN elapsed_us ELSE h_rd.last)
        /\ (h_rd.called /\ config.render_interval > 0) =>
                ~(elapsed_us - last_render >= config.render_interval)

\* the second move tick of a run, one interval after the first
C13_Witness ==
    /\ C_MoveDecided
    /\ h_mv.called
    /\ h_mv.last > 0
    /\ elapsed_us - h_mv.last = config.move_interval
    /\ last_move = elapsed_us
    /\ last_render > 0

\* the process has ended: main returned, a signal ended it, or init_game's
\* out-of-bounds write did
C_Exited == pc \in {"done", "killed", "crashed"}

\* C14: once raw mode has been enabled, the terminal is back in its original
\* mode when the process has exited, on every exit path: game over by wall,
\* self-collision, capacity or food failure, the quit key, and a forced
\* termination of the main loop (on a board wide enough for the initial
\* snake).
C14_RawModeRestored ==
    (C_Exited /\ config.board_width >= 4) => ~raw_mode

\* C15: once game_over is true, also when the quit key set it earlier in the
\* same loop iteration, no later step changes body, length, score or food,
\* and game_over never returns to false (on a board wide enough for the
\* initial snake).
C15_GameOverTerminal ==
    [][(game.game_over /\ config.board_width >= 4)
       => /\ game'.game_over
          /\ game'.snake.body = game.snake.body
          /\ game'.snake.length = game.snake.length
          /\ game'.score = game.score
          /\ game'.food = game.food]_vars

\* body, length, score, food and game_over of g are those of f
C16_SameBoard(f, g) ==
    /\ g.snake.body = f.snake.body
    /\ g.snake.length = f.snake.length
    /\ g.score = f.score
    /\ g.food = f.food
    /\ g.game_over = f.game_over

\* C16: the space key flips paused and changes nothing else; while paused no
\* move tick is applied, so body, length, score, food and game_over stay as
\* they are over the loop iterations until space or q is pressed; and no key,
\* the pause key included, is handled once the game is over.
C16_Pause ==
    /\ (C_Handled /\ h_in.keys = <<" ">>)
       => game = [h_in.pre EXCEPT !.paused = ~h_in.pre.paused]
    /\ (C_Handled /\ h_in.pre.paused /\ h_in.keys \notin {<<" ">>, <<"q">>, <<"Q">>})
       => (game.paused /\ C16_SameBoard(h_in.pre, game))
    /\ (C_MoveDecided /\ h_mv.pre.paused)
       => (~h_mv.called /\ game = h_mv.pre)
    /\ C_Handled => ~h_in.pre.game_over

\* a paused iteration whose move tick was due by the clock and was not applied
C16_Witness ==
    /\ C_MoveDecided
    /\ game.paused
    /\ ~h_mv.called
    /\ elapsed_us - last_move >= config.move_interval
    /\ game = h_mv.pre
    /\ ~game.game_over

\* the statements main has left to run before the final score is printed
C17_StepsLeft ==
    CASE pc = "done" -> 0
      [] pc = "cleanup" -> 1
      [] pc = "while" -> 2
      [] pc = "render" -> 3
      [] pc = "move" -> 4
      [] OTHER -> 5

\* main has a next statement to run: the move tick, the render tick and
\* sleep, the loop test, or the cleanup and the final score
C17_HasNext ==
    CASE pc = "move" -> (move_due => \E r \in move_snake(game, config) : TRUE)
      [] pc = "render" -> ENABLED RenderTick
      [] pc = "while" -> ENABLED LoopTest
      [] pc = "cleanup" -> ENABLED Finish
      [] OTHER -> FALSE

\* C17: once game_over is true the main loop starts no further iteration (no
\* handle_input call follows), and the program reaches the final-score
\* output: until then it always has a next statement, and each statement
\* brings it closer; the q key always sets game_over, also while paused.
C17_LoopEnds ==
    /\ [](/\ pc = "input" => ~game.game_over
          /\ (C_Handled /\ h_in.keys \in {<<"q">>, <<"Q">>}) => game.game_over
          /\ (game.game_over /\ pc # "done") => C17_HasNext)
    /\ [][game.game_over => C17_StepsLeft' < C17_StepsLeft]_vars

\* the game was quit while paused and the final score has been printed
C17_Witness ==
    /\ pc = "done"
    /\ game.game_over
    /\ game.paused
    /\ ~raw_mode

\* the bytes are a complete arrow-key sequence ESC [ A/B/C/D
C18_IsArrow(keys) ==
    /\ Len(keys) = 3
    /\ keys[1] = ESC
    /\ keys[2] = "["
    /\ keys[3] \in {"A", "B", "C", "D"}

\* C18: one handle_input call takes at most one key event (nothing, one byte,
\* or one ESC sequence of at most 3 bytes) and returns whatever stdin holds;
\* a lone ESC, ESC + a byte other than '[', ESC [ with no third byte and
\* ESC [ + a byte other than A/B/C/D leave the game as it was (direction,
\* paused and game_over included: ESC is never a quit key); ESC [ A/B/C/D
\* ask for up/down/right/left and change nothing but the direction.
C18_Decoding ==
    C_Handled =>
        LET keys == h_in.keys
            pre == h_in.pre
        IN  /\ Len(keys) <= 3
            /\ Len(keys) > 1 => keys[1] = ESC
            /\ keys = <<>> => game = pre
            /\ (keys # <<>> /\ keys[1] = ESC /\ ~C18_IsArrow(keys))
               => game = pre
            /\ C18_IsArrow(keys) =>
                LET asked == CASE keys[3] = "A" -> UP
                               [] keys[3] = "B" -> DOWN
                               [] keys[3] = "C" -> RIGHT
                               [] keys[3] = "D" -> LEFT
                IN  IF asked = C_Reverse(pre.snake.direction)
                    THEN game = pre
                    ELSE game = [pre EXCEPT !.snake.direction = asked]

\* ESC [ with no third byte, read while the snake goes right
C18_Witness ==
    /\ C_Handled
    /\ h_in.keys = <<ESC, "[">>
    /\ game = h_in.pre
    /\ ~game.game_over
    /\ game.snake.direction = RIGHT

\* p is one cell from q: one step in some direction, wrapped to the board
\* when wraparound is on
C19_Adjacent(p, q) ==
    \E d \in {UP, DOWN, LEFT, RIGHT} :
        \/ p = C_Advance(q, d)
        \/ config.wraparound_mode /\ p = C_Modulo(C_Advance(q, d))

\* C19: in every reachable state in which the game is not over (on a board
\* wide enough for the initial snake, walls on) the segments
\* body[0 .. length-1] are inside the board, pairwise distinct, and each
\* body[i] is one cell from body[i-1], also right after food was eaten in
\* Regular mode.
C19_WellFormed ==
    (/\ C_Playing
     /\ ~game.game_over
     /\ config.board_width >= 4
     /\ ~config.wraparound_mode)
    => LET body == game.snake.body
           length == game.snake.length
       IN  /\ \A i \in 0 .. length - 1 : C_OnBoard(body[i])
           /\ \A i, j \in 0 .. length - 1 : i # j => body[i] # body[j]
           /\ \A i \in 1 .. length - 1 : C19_Adjacent(body[i], body[i - 1])

\* the bound the claim C20 names for the successful moves of a Greedy game
C20_MaxMoves == config.board_width * config.board_height - 3

\* the successful moves before the move_snake call of this iteration
C20_MovesBefore == IF h_mv.ret = "moved" THEN moves - 1 ELSE moves

\* C20: in Greedy mode, with or without wraparound and whatever the keys, at
\* most width*height - 3 move ticks move the snake, and the move tick after
\* the last of them sets game_over and writes nothing: the game ends as a
\* normal game over, never by a write past the body.
C20_GreedyEnds ==
    (C_Playing /\ config.game_mode = MODE_GREEDY)
    => /\ moves <= C20_MaxMoves
       /\ game.snake.length <= game.snake.max_length
       /\ (C_Moved /\ C20_MovesBefore >= C20_MaxMoves)
          => /\ game.game_over
             /\ game = [C_Pre EXCEPT !.game_over = TRUE]

====
